---- MODULE Spec2Model ----
(***************************************************************************)
(* Model of the case-generation and game-session core of cluedoGenAI       *)
(* (src/app.py): the Text-Block Extractor (_extract_json), the Case        *)
(* Normalizer (generate_case_with_crew), the Dialogue Resolver             *)
(* (call_crew_for_answer) and the Game Session handlers                    *)
(* (init_game_state, handle_question_submit, handle_accusation,            *)
(* reset_game) operating on Streamlit's st.session_state.                  *)
(*                                                                         *)
(* Representation                                                          *)
(*  - a Python dict is a function whose DOMAIN is the set of present keys; *)
(*  - Python None is the string None where a string may stand, and the     *)
(*    record NoneRec where a dict may stand;                               *)
(*  - a text is a sequence of tokens.  A token is one character of the     *)
(*    text, except that the members of a well-formed JSON object are one   *)
(*    opaque token KV(d) carrying the mapping d they parse to, and a       *)
(*    well-formed JSON number is the token JV; the texts of a scene use    *)
(*    one token per word or punctuation mark; None in place of a text is   *)
(*    the empty text (the code only tests such values for truth);          *)
(*  - an f-string that interpolates values is the sequence of its chunks.  *)
(* The audio keys of st.session_state (music_tracks, last_sfx_bytes, ...)  *)
(* are not part of the game state and are left out.                        *)
(***************************************************************************)
EXTENDS Integers, Sequences, FiniteSets, TLC

\* ---------------------------------------------------------------- constants
TOTAL_QUESTIONS == 10
ANSWER_LIMIT == 400

\* ------------------------------------------------------------------- bounds
MaxAskCalls == 11
MaxAgentFailures == 1
MaxSuspects == 2
MaxResolverAsks == 1
MaxBodyLen == 3

\* ------------------------------------------------------------ Python values
None == "<None>"
NoneRec == [isNone |-> TRUE]
EmptyDict == [k \in {} |-> 0]

Get(d, k, default) == IF k \in DOMAIN d THEN d[k] ELSE default

\* truth value of a string-or-None
Truthy(x) == x # None /\ x # ""

\* ------------------------------------------------------------------- texts
Ch(c) == [t |-> c]
KV(d) == [t |-> "kv", d |-> d]
JV == [t |-> "jv"]
BT == Ch("backtick")
NL == Ch("\n")
SP == Ch(" ")
LB == Ch("{")
RB == Ch("}")
LT == Ch("<")
GT == Ch(">")
AMP_LT == Ch("&lt;")
AMP_GT == Ch("&gt;")
W == Ch("w")

IsSpace(tok) == tok = SP \/ tok = NL

RECURSIVE lstrip(_)
lstrip(text) ==
    IF text # <<>> /\ IsSpace(Head(text)) THEN lstrip(Tail(text)) ELSE text

RECURSIVE rstrip(_)
rstrip(text) ==
    IF text # <<>> /\ IsSpace(text[Len(text)])
    THEN rstrip(SubSeq(text, 1, Len(text) - 1))
    ELSE text

strip(text) == rstrip(lstrip(text))

startswith_fence(text) ==
    Len(text) >= 3 /\ text[1] = BT /\ text[2] = BT /\ text[3] = BT

\* index of the first / last occurrence of tok, -1-like 0 when there is none
find(text, tok) ==
    IF \E i \in 1..Len(text) : text[i] = tok
    THEN CHOOSE i \in 1..Len(text) :
            text[i] = tok /\ \A j \in 1..(i - 1) : text[j] # tok
    ELSE 0

rfind(text, tok) ==
    IF \E i \in 1..Len(text) : text[i] = tok
    THEN CHOOSE i \in 1..Len(text) :
            text[i] = tok /\ \A j \in (i + 1)..Len(text) : text[j] # tok
    ELSE 0

\* str.splitlines(): the lines between newlines, no empty line after a
\* trailing newline
RECURSIVE splitlines(_)
splitlines(text) ==
    IF text = <<>> THEN <<>>
    ELSE LET n == find(text, NL) IN
         IF n = 0 THEN <<text>>
         ELSE <<SubSeq(text, 1, n - 1)>>
              \o splitlines(SubSeq(text, n + 1, Len(text)))

RECURSIVE join_lines(_)
join_lines(lines) ==
    IF lines = <<>> THEN <<>>
    ELSE IF Len(lines) = 1 THEN lines[1]
    ELSE lines[1] \o <<NL>> \o join_lines(Tail(lines))

NotSpace(tok) == ~IsSpace(tok)

\* the text without its whitespace
drop_space(text) == SelectSeq(text, NotSpace)

\* json.loads: [ok |-> FALSE] when the decoder raises, else the value.  A
\* number (a value that is not a mapping) is the record NotADict.
NotADict == [notADict |-> TRUE]

\* the decoder on a text without its whitespace
decode(s) ==
    IF s = <<LB, RB>> THEN [ok |-> TRUE, value |-> EmptyDict]
    ELSE IF Len(s) = 3 /\ s[1] = LB /\ s[2].t = "kv" /\ s[3] = RB
         THEN [ok |-> TRUE, value |-> s[2].d]
    ELSE IF s = <<JV>> THEN [ok |-> TRUE, value |-> NotADict]
    ELSE [ok |-> FALSE]

json_loads(text) == decode(drop_space(text))

\* lines 75-81: the value when the decoder succeeded, else None
loaded_or_none(r) == IF r.ok THEN r.value ELSE NoneRec

\* lines 73-78 for the positions start and end of the braces
braces_between(text, start, end) ==
    IF start # 0 /\ end # 0 /\ end > start
    THEN loaded_or_none(json_loads(SubSeq(text, start, end)))
    ELSE NoneRec

\* the "{" ... "}" heuristic of _extract_json (step 2, lines 70-81)
extract_braces(text) == braces_between(text, find(text, LB), rfind(text, RB))

\* lines 59-60: the lines without a first fence line
drop_first_fence(lines) ==
    IF lines # <<>> /\ startswith_fence(lines[1]) THEN Tail(lines) ELSE lines

\* lines 61-62: the lines without a last fence line
drop_last_fence(lines) ==
    IF lines # <<>> /\ startswith_fence(lines[Len(lines)])
    THEN SubSeq(lines, 1, Len(lines) - 1)
    ELSE lines

\* lines 64-68: the decoded candidate, else the heuristic on the candidate
loaded_or_braces(r, candidate) ==
    IF r.ok THEN r.value ELSE extract_braces(candidate)

\* lines 63-68
extract_candidate(candidate) ==
    loaded_or_braces(json_loads(candidate), candidate)

\* lines 54-81 on the stripped text
extract_stripped(text) ==
    IF startswith_fence(text)
    THEN extract_candidate(strip(join_lines(
             drop_last_fence(drop_first_fence(splitlines(text))))))
    ELSE extract_braces(text)

\* _extract_json(text): the mapping found in the text, NotADict when a fenced
\* block holds a JSON number, NoneRec (None) when nothing parses
_extract_json(text) ==
    IF text = <<>> THEN NoneRec ELSE extract_stripped(strip(text))

\* ------------------------------------------------------ CrewAI task outputs
\* A task output is a dict of its string attributes plus "str", the text
\* str() gives.
TaskAttrs == <<"raw", "output", "value", "result", "content">>

RECURSIVE first_attr(_, _)
first_attr(task_obj, attrs) ==
    IF attrs = <<>> THEN <<>>
    ELSE IF Head(attrs) \in DOMAIN task_obj
            /\ strip(task_obj[Head(attrs)]) # <<>>
         THEN task_obj[Head(attrs)]
         ELSE first_attr(task_obj, Tail(attrs))

_safe_get_task_raw(task_obj) ==
    IF task_obj = NoneRec THEN <<>>
    ELSE LET val == first_attr(task_obj, TaskAttrs) IN
         IF val # <<>> THEN val
         ELSE IF strip(task_obj.str) # <<>> THEN task_obj.str
         ELSE <<>>

\* truth value of what _extract_json returns
TruthyData(data) == data # NoneRec /\ data # EmptyDict

\* ------------------------------------------------------------- scene texts
VICTIM_CAP == Ch("Victim")
VICTIM_LOW == Ch("victim")
LPAR == Ch("(")
RPAR == Ch(")")
DOT == Ch(".")
COMMA == Ch(",")
BODY_OF == Ch("body of ")
ELECTRO_LOW == Ch("electrocuted")
ELECTRO_CAP == Ch("Electrocuted")
LEON == Ch("Leon")
VANCE == Ch("Vance")

\* words matching [A-Z][A-Za-z]+
IsCapWord(tok) == tok \in {VICTIM_CAP, ELECTRO_CAP, LEON, VANCE}

Contains(text, toks) == \E i \in 1..Len(text) : text[i] \in toks

\* text.split(sep)[0]
split_first(text, sep) ==
    LET n == find(text, sep) IN
    IF n = 0 THEN text ELSE SubSeq(text, 1, n - 1)

\* the longest run  Cap( Cap)*  starting at position i
RECURSIVE cap_run(_, _)
cap_run(text, i) ==
    IF i + 2 <= Len(text) /\ text[i + 1] = SP /\ IsCapWord(text[i + 2])
    THEN <<text[i]>> \o <<SP>> \o cap_run(text, i + 2)
    ELSE <<text[i]>>

\* re.search(r"body of ([A-Z][A-Za-z]+(?: [A-Z][A-Za-z]+)*)", summary):
\* group 1 of the leftmost match, the empty text when there is no match
body_of_name(summary) ==
    LET hits == {i \in 1..(Len(summary) - 1) :
                    summary[i] = BODY_OF /\ IsCapWord(summary[i + 1])}
    IN IF hits = {} THEN <<>>
       ELSE cap_run(summary, (CHOOSE i \in hits : \A j \in hits : i <= j) + 1)

RECURSIVE join_space(_)
join_space(texts) ==
    IF texts = <<>> THEN <<>>
    ELSE IF Len(texts) = 1 THEN texts[1]
    ELSE texts[1] \o <<SP>> \o join_space(Tail(texts))

base_case ==
    [victim |-> <<Ch("Unknown Victim")>>,
     time |-> <<Ch("Sometime past midnight")>>,
     place |-> <<Ch("An almost empty tech office")>>,
     cause |-> <<Ch("Suspicious accident with smart equipment")>>,
     context |-> <<Ch("A storm hits the city. Backup power keeps the systems barely alive. Only a handful of employees remain inside for a late-night push before a major demo.")>>]

\* the adjustment that takes place from the scene's location as it is
adjust_case_location_as_is(scene) ==
    [victim |-> base_case.victim,
     place |-> Get(scene, "location", <<>>),
     time |-> base_case.time,
     cause |-> base_case.cause,
     context |-> base_case.context]

\* lines 221-275: the case fields adjusted from a (truthy) scene blueprint
adjust_case_with_scene(scene) ==
    LET present_chars == Get(scene, "present_characters", <<>>)
        marked == {i \in 1..Len(present_chars) :
                      Contains(present_chars[i], {VICTIM_CAP, VICTIM_LOW})}
        victim0 == IF marked = {} THEN <<>>
                   ELSE strip(split_first(
                          present_chars[CHOOSE i \in marked :
                                           \A j \in marked : i <= j], LPAR))
        summary == Get(scene, "summary", <<>>)
        victim == IF victim0 = <<>> /\ summary # <<>>
                  THEN body_of_name(summary) ELSE victim0
        location == Get(scene, "location", <<>>)
        time_phrase == strip(split_first(strip(split_first(summary, DOT)),
                                         COMMA))
        visible_clues == Get(scene, "visible_clues", <<>>)
        cause == IF Contains(summary, {ELECTRO_LOW, ELECTRO_CAP})
                 THEN <<Ch("Electrocution involving the Nexus-Smart-Hub prototype")>>
                 ELSE IF Contains(join_space(visible_clues),
                                  {ELECTRO_LOW, ELECTRO_CAP})
                 THEN <<Ch("Electrocution during the server room incident")>>
                 ELSE <<>>
        hidden_tension == Get(scene, "hidden_tension", <<>>)
    IN [victim |-> IF victim # <<>> THEN victim ELSE base_case.victim,
        place |-> IF location # <<>> THEN location ELSE base_case.place,
        time |-> IF time_phrase # <<>> THEN time_phrase ELSE base_case.time,
        cause |-> IF cause # <<>> THEN cause ELSE base_case.cause,
        context |-> IF summary # <<>> /\ hidden_tension # <<>>
                    THEN summary \o <<SP>> \o hidden_tension
                    ELSE IF summary # <<>> THEN summary
                    ELSE IF hidden_tension # <<>> THEN hidden_tension
                    ELSE base_case.context]

\* ---------------------------------------------------------- Case Normalizer
\* A Python list value is [type |-> "list", items |-> <<...>>]; a value of
\* another type is [type |-> "other"].
PyList(items) == [type |-> "list", items |-> items]
PyOther == [type |-> "other"]

\* lines 182-193: the loop over a list of task outputs
RECURSIVE parse_task_list(_, _, _)
parse_task_list(tasks, scene, chars) ==
    IF tasks = <<>> THEN [err |-> FALSE, scene |-> scene, chars |-> chars]
    ELSE LET raw == _safe_get_task_raw(Head(tasks))
             data == IF raw # <<>> THEN _extract_json(raw) ELSE NoneRec
         IN IF ~TruthyData(data) THEN parse_task_list(Tail(tasks), scene, chars)
            ELSE IF data = NotADict
            THEN [err |-> TRUE, scene |-> scene, chars |-> chars]
            ELSE parse_task_list(Tail(tasks),
                    IF "scene_id" \in DOMAIN data
                       /\ "present_characters" \in DOMAIN data
                    THEN data ELSE scene,
                    IF "suspects" \in DOMAIN data THEN data ELSE chars)

\* lines 197-207: task outputs mapped by task name
parse_task_dict(tasks) ==
    [err |-> FALSE,
     scene |-> IF "create_scene_blueprint" \in DOMAIN tasks
               THEN _extract_json(_safe_get_task_raw(tasks.create_scene_blueprint))
               ELSE NoneRec,
     chars |-> IF "define_characters" \in DOMAIN tasks
               THEN _extract_json(_safe_get_task_raw(tasks.define_characters))
               ELSE NoneRec]

\* lines 173-210
parse_tasks_out(tasks_out) ==
    IF tasks_out.type = "list" THEN parse_task_list(tasks_out.list, NoneRec, NoneRec)
    ELSE IF tasks_out.type = "dict" THEN parse_task_dict(tasks_out.dict)
    ELSE [err |-> FALSE, scene |-> NoneRec, chars |-> NoneRec]

FirstIndex(S) == CHOOSE i \in S : \A j \in S : i <= j

\* resolve_guilty_name with a default: the first suspect when nothing resolves
resolve_guilty_name_default_first(characters_json, suspects_raw) ==
    LET explicit == Get(characters_json, "guilty_name", None)
        killer_id == Get(characters_json, "killer_id", None)
        byId == {i \in 1..Len(suspects_raw) :
                    Get(suspects_raw[i], "id", None) = killer_id}
        flagged == {i \in 1..Len(suspects_raw) :
                       "guilty" \in DOMAIN suspects_raw[i]
                       /\ suspects_raw[i].guilty = TRUE}
    IN IF Truthy(explicit) THEN explicit
       ELSE IF Truthy(killer_id) /\ byId # {}
               /\ Truthy(Get(suspects_raw[FirstIndex(byId)], "name", None))
       THEN suspects_raw[FirstIndex(byId)].name
       ELSE IF flagged # {}
               /\ Truthy(Get(suspects_raw[FirstIndex(flagged)], "name", None))
       THEN suspects_raw[FirstIndex(flagged)].name
       ELSE Get(suspects_raw[1], "name", "Unknown Suspect")

\* resolve_guilty_name with the guilty flags consulted before killer_id
resolve_guilty_name_flag_first(characters_json, suspects_raw) ==
    LET explicit == Get(characters_json, "guilty_name", None)
        killer_id == Get(characters_json, "killer_id", None)
        byId == {i \in 1..Len(suspects_raw) :
                    Get(suspects_raw[i], "id", None) = killer_id}
        flagged == {i \in 1..Len(suspects_raw) :
                       "guilty" \in DOMAIN suspects_raw[i]
                       /\ suspects_raw[i].guilty = TRUE}
        afterFlag == IF Truthy(explicit) THEN explicit
                     ELSE IF flagged # {}
                     THEN Get(suspects_raw[FirstIndex(flagged)], "name", None)
                     ELSE explicit
    IN IF Truthy(afterFlag) THEN afterFlag
       ELSE IF Truthy(killer_id) /\ byId # {}
       THEN Get(suspects_raw[FirstIndex(byId)], "name", None)
       ELSE afterFlag

\* lines 288-302: the culprit's name, or a falsy value (None, "")
resolve_guilty_name(characters_json, suspects_raw) ==
    LET explicit == Get(characters_json, "guilty_name", None)
        killer_id == Get(characters_json, "killer_id", None)
        byId == {i \in 1..Len(suspects_raw) :
                    Get(suspects_raw[i], "id", None) = killer_id}
        afterId == IF Truthy(explicit) THEN explicit
                   ELSE IF Truthy(killer_id) /\ byId # {}
                   THEN Get(suspects_raw[FirstIndex(byId)], "name", None)
                   ELSE explicit
        flagged == {i \in 1..Len(suspects_raw) :
                       "guilty" \in DOMAIN suspects_raw[i]
                       /\ suspects_raw[i].guilty = TRUE}
    IN IF Truthy(afterId) THEN afterId
       ELSE IF flagged # {}
       THEN Get(suspects_raw[FirstIndex(flagged)], "name", None)
       ELSE afterId

\* lines 316-320: the guilty flag of a normalised suspect
suspect_guilty(s, guilty_name, characters_json) ==
    \/ Get(s, "guilty", FALSE)
    \/ Get(s, "name", None) = guilty_name
    \/ Get(s, "id", None) = Get(characters_json, "killer_id", None)

\* lines 310-322
normalize_suspect(s, guilty_name, characters_json) ==
    [name |-> Get(s, "name", "Unknown Suspect"),
     role |-> Get(s, "role", ""),
     personality |-> Get(s, "personality", ""),
     secret |-> IF Truthy(Get(s, "secret", None)) THEN s.secret
                ELSE Get(s, "secret_motivation", ""),
     guilty |-> suspect_guilty(s, guilty_name, characters_json)]

Raise(e, stored) == [raised |-> TRUE, e |-> e, stored |-> stored]

\* lines 280-329, after the scene adjustments
normalize_characters(fields, characters_json, stored) ==
    IF ~TruthyData(characters_json) THEN
        Raise(<<"Crew did not return a valid 'characters' JSON with 'suspects'.">>, stored)
    ELSE IF characters_json = NotADict THEN
        Raise(<<"argument of type 'int' is not iterable">>, stored)
    ELSE IF "suspects" \notin DOMAIN characters_json THEN
        Raise(<<"Crew did not return a valid 'characters' JSON with 'suspects'.">>, stored)
    ELSE LET suspects_raw == characters_json.suspects IN
         IF suspects_raw.type # "list" \/ Len(suspects_raw.items) = 0 THEN
            Raise(<<"Characters JSON has an empty or invalid 'suspects' list.">>, stored)
         ELSE LET guilty_name == resolve_guilty_name(characters_json,
                                                     suspects_raw.items)
              IN IF ~Truthy(guilty_name) THEN
                    Raise(<<"Could not determine guilty_name from characters JSON.">>, stored)
                 ELSE [raised |-> FALSE,
                       stored |-> stored,
                       case |-> [victim |-> fields.victim,
                                 time |-> fields.time,
                                 place |-> fields.place,
                                 cause |-> fields.cause,
                                 context |-> fields.context,
                                 suspects |->
                                   [i \in 1..Len(suspects_raw.items) |->
                                      normalize_suspect(suspects_raw.items[i],
                                                        guilty_name,
                                                        characters_json)],
                                 guilty_name |-> guilty_name]]

\* generate_case_with_crew(): result is the outcome of crew.kickoff().
\* stored holds the keys written to st.session_state at lines 213-216, which
\* are written before the validation can raise.
generate_case_with_crew(result) ==
    IF result.raises THEN Raise(<<"Error calling CrewAI: ">> \o result.e, EmptyDict)
    ELSE LET p == parse_tasks_out(result.tasks_output) IN
         IF p.err THEN
            Raise(<<"Error parsing Crew output: argument of type 'int' is not iterable">>,
                  EmptyDict)
         ELSE LET stored ==
                     (IF p.scene # NoneRec THEN [scene_blueprint |-> p.scene]
                      ELSE EmptyDict)
                  @@ (IF p.chars # NoneRec THEN [characters |-> p.chars]
                      ELSE EmptyDict)
              IN IF p.scene = NotADict THEN
                    Raise(<<"'int' object has no attribute 'get'">>, stored)
                 ELSE normalize_characters(
                        IF TruthyData(p.scene) THEN adjust_case_with_scene(p.scene)
                        ELSE base_case,
                        p.chars, stored)

\* -------------------------------------------------------- Dialogue Resolver
\* The value under a key of the dialogue JSON: a string, or a value of
\* another type that is true (a number, a list), or null.
PyStr(text) == [type |-> "str", val |-> text]
PyNull == [type |-> "null"]

TruthyValue(v) == v.type = "other" \/ (v.type = "str" /\ v.val # <<>>)

THROTTLED_LINE ==
    <<Ch("The overhead lights flicker and the network icon turns red. <<Systems are throttled... you won't get more out of me right now,>> the suspect says, dodging your question.")>>
GLITCH_LINE ==
    <<Ch("The suspect just stares back at you. Something in the system glitched and they refuse to answer.")>>

\* the error lines chosen on the marker RESOURCE_EXHAUSTED alone
answer_on_error_resource_only(msg) ==
    IF "RESOURCE_EXHAUSTED" \in msg THEN THROTTLED_LINE ELSE GLITCH_LINE

\* lines 406-417: msg is the set of markers the error text contains
answer_on_error(msg) ==
    IF "429" \in msg \/ "RESOURCE_EXHAUSTED" \in msg \/ "Quota exceeded" \in msg
    THEN THROTTLED_LINE
    ELSE GLITCH_LINE

\* data.get("spoken_text") or data.get("answer") or data.get("text")
spoken_of(data) ==
    LET a == Get(data, "spoken_text", PyNull)
        b == Get(data, "answer", PyNull)
        c == Get(data, "text", PyNull)
    IN IF TruthyValue(a) THEN a ELSE IF TruthyValue(b) THEN b ELSE c

IsDict(data) == data # NoneRec /\ data # NotADict

\* lines 368-377: the first task output whose JSON has "spoken_text"
RECURSIVE dialogue_from_list(_)
dialogue_from_list(tasks) ==
    IF tasks = <<>> THEN NoneRec
    ELSE LET raw == _safe_get_task_raw(Head(tasks))
             candidate == IF raw # <<>> THEN _extract_json(raw) ELSE NoneRec
         IN IF IsDict(candidate) /\ "spoken_text" \in DOMAIN candidate
            THEN candidate
            ELSE dialogue_from_list(Tail(tasks))

\* lines 364-384
dialogue_data(result) ==
    LET tasks_out == result.tasks_output IN
    IF tasks_out.type = "list" /\ tasks_out.list # <<>>
    THEN dialogue_from_list(tasks_out.list)
    ELSE IF tasks_out.type = "dict" /\ DOMAIN tasks_out.dict # {}
    THEN IF "generate_suspect_dialogue" \in DOMAIN tasks_out.dict
         THEN _extract_json(_safe_get_task_raw(
                                tasks_out.dict.generate_suspect_dialogue))
         ELSE NoneRec
    ELSE NoneRec

\* the truncation applied from the limit itself on
truncate_answer_from_limit(raw_fallback) ==
    LET answer_text == strip(raw_fallback) IN
    IF Len(answer_text) >= ANSWER_LIMIT
    THEN SubSeq(answer_text, 1, ANSWER_LIMIT) \o <<Ch("...")>>
    ELSE answer_text

\* lines 400-404
truncate_answer(raw_fallback) ==
    LET answer_text == strip(raw_fallback) IN
    IF Len(answer_text) > ANSWER_LIMIT
    THEN SubSeq(answer_text, 1, ANSWER_LIMIT) \o <<Ch("...")>>
    ELSE answer_text

\* lines 392-404
answer_fallback(result) ==
    LET raw_fallback == result.str
        data_fb == _extract_json(raw_fallback)
        spoken_fb == IF IsDict(data_fb) THEN spoken_of(data_fb) ELSE PyNull
    IN IF TruthyValue(spoken_fb)
       THEN IF spoken_fb.type = "str" THEN strip(spoken_fb.val)
            ELSE answer_on_error({})
       ELSE truncate_answer(raw_fallback)

\* call_crew_for_answer: result is the outcome of crew.kickoff().  The
\* prompts are built from the case, the suspect and the history; the agent
\* is opaque, so its outcome does not depend on them in the model.
call_crew_for_answer(result) ==
    IF result.raises THEN answer_on_error(result.e)
    ELSE LET data == dialogue_data(result)
             spoken == IF IsDict(data) THEN spoken_of(data) ELSE PyNull
         IN IF TruthyValue(spoken)
            THEN IF spoken.type = "str" THEN strip(spoken.val)
                 ELSE answer_on_error({})
            ELSE answer_fallback(result)

\* html.unescape on the entities of the model's alphabet
unescape(text) ==
    [i \in 1..Len(text) |->
        IF text[i] = AMP_LT THEN LT ELSE IF text[i] = AMP_GT THEN GT ELSE text[i]]

\* index of the first occurrence of tok at or after position i, 0 when there
\* is none
find_from(text, tok, i) ==
    IF \E k \in i..Len(text) : text[k] = tok
    THEN CHOOSE k \in i..Len(text) :
            text[k] = tok /\ \A m \in i..(k - 1) : text[m] # tok
    ELSE 0

\* re.sub(r"<[^>]+>", " ", text): i is the position of the first "<" and j
\* that of the first ">" after it
RECURSIVE sub_tags(_)
sub_tags_at(text, i, j) ==
    IF j = 0 THEN text
    ELSE IF j > i + 1
    THEN SubSeq(text, 1, i - 1) \o <<SP>>
         \o sub_tags(SubSeq(text, j + 1, Len(text)))
    ELSE SubSeq(text, 1, i) \o sub_tags(SubSeq(text, i + 1, Len(text)))

sub_tags_from(text, i) ==
    IF i = 0 THEN text ELSE sub_tags_at(text, i, find_from(text, GT, i + 1))

sub_tags(text) == sub_tags_from(text, find(text, LT))

\* a token that stands for a removed character
DROPPED == Ch("<dropped>")

NotDropped(tok) == tok # DROPPED

\* " ".join(text.split()): a run of whitespace between two words becomes one
\* space, leading and trailing whitespace goes
collapse_space(text) ==
    SelectSeq([i \in 1..Len(text) |->
                 IF ~IsSpace(text[i]) THEN text[i]
                 ELSE IF i > 1 /\ ~IsSpace(text[i - 1])
                         /\ \E j \in (i + 1)..Len(text) : ~IsSpace(text[j])
                 THEN SP
                 ELSE DROPPED],
              NotDropped)

_strip_html_tags(text) ==
    IF text = <<>> THEN <<>>
    ELSE strip(collapse_space(lstrip(sub_tags(text))))

\* ------------------------------------------------------------- Game Session
VARIABLES
    session_state,  \* st.session_state: a dict, empty after clear()
    lastCall,       \* the handler that ran last, with its arguments
    asks,           \* non-blank questions submitted to the session while it
                    \* was active (not failed, not over)
    agent_failures  \* kickoff() calls of the dialogue crew that raised in
                    \* this session

vars == <<session_state, lastCall, asks, agent_failures>>

Initialised == "case" \in DOMAIN session_state

NamesOf(suspects) == {suspects[i].name : i \in 1..Len(suspects)}

\* the choices of the two select boxes (line 896); the handlers of a failed
\* session would be passed the None stored at lines 565-566
suspect_names ==
    IF session_state.case = EmptyDict THEN {None}
    ELSE NamesOf(session_state.case.suspects)

\* lines 543-553
session_started(case) ==
    [case |-> case,
     guilty_name |-> case.guilty_name,
     histories |-> [n \in NamesOf(case.suspects) |-> <<>>],
     remaining_questions |-> TOTAL_QUESTIONS,
     game_over |-> FALSE,
     accused |-> None,
     outcome |-> NoneRec,
     selected_suspect |-> case.suspects[1].name,
     accuse_choice |-> case.suspects[1].name,
     crew_failed |-> FALSE,
     crew_error |-> <<>>]

\* the failed session with the budget and the flags of a started one
session_failed_still_active(e) ==
    [crew_failed |-> TRUE,
     crew_error |-> <<"Failed to generate the case with CrewAI: ">> \o e,
     case |-> EmptyDict,
     histories |-> EmptyDict,
     remaining_questions |-> TOTAL_QUESTIONS,
     game_over |-> FALSE,
     accused |-> None,
     outcome |-> NoneRec,
     selected_suspect |-> None,
     accuse_choice |-> None]

\* lines 556-566
session_failed(e) ==
    [crew_failed |-> TRUE,
     crew_error |-> <<"Failed to generate the case with CrewAI: ">> \o e,
     case |-> EmptyDict,
     histories |-> EmptyDict,
     remaining_questions |-> 0,
     game_over |-> TRUE,
     accused |-> None,
     outcome |-> NoneRec,
     selected_suspect |-> None,
     accuse_choice |-> None]

\* init_game_state without its early return
case_in_session_never == FALSE

\* the early return of init_game_state skipped for a failed session, so that
\* a render retries the generation
case_in_session_unless_failed ==
    "case" \in DOMAIN session_state
    /\ ~Get(session_state, "crew_failed", FALSE)

\* line 538: "case" in st.session_state
case_in_session == "case" \in DOMAIN session_state

\* init_game_state(), run at the start of every render; Results is the set
\* of outcomes crew.kickoff() may have
init_game_state(Results) ==
    \/ /\ case_in_session
       /\ lastCall' = [op |-> "init_game_state", generated |-> FALSE]
       /\ UNCHANGED <<session_state, asks, agent_failures>>
    \/ /\ ~case_in_session
       /\ \E result \in Results :
            LET r == generate_case_with_crew(result) IN
            /\ session_state' =
                 (IF r.raised THEN session_failed(r.e) ELSE session_started(r.case))
                 @@ r.stored @@ session_state
            /\ lastCall' = [op |-> "init_game_state", generated |-> TRUE,
                            result |-> result]
       /\ asks' = 0
       /\ agent_failures' = 0

\* a reset that is refused once the case is closed or failed
reset_game_unless_over ==
    /\ Initialised
    /\ ~session_state.game_over
    /\ session_state' = EmptyDict
    /\ lastCall' = [op |-> "reset_game"]
    /\ UNCHANGED <<asks, agent_failures>>

\* reset_game(): st.session_state.clear(); the rerun then renders again
reset_game ==
    /\ Initialised
    /\ session_state' = EmptyDict
    /\ lastCall' = [op |-> "reset_game"]
    /\ UNCHANGED <<asks, agent_failures>>

\* the early returns without the budget check of lines 723-725
question_rejected_no_budget(q, disabled) ==
    \/ q = <<>>
    \/ disabled
    \/ session_state.game_over

\* the early returns without the blank-question check of lines 714-716
question_rejected_no_blank(q, disabled) ==
    \/ disabled
    \/ session_state.game_over
    \/ session_state.remaining_questions <= 0

\* lines 714-725: the early returns of handle_question_submit
question_rejected(q, disabled) ==
    \/ q = <<>>
    \/ disabled
    \/ session_state.game_over
    \/ session_state.remaining_questions <= 0

\* the accepted question with the counter stepping the wrong way
question_accepted_increment(suspect_name, q, answer) ==
    [session_state EXCEPT
        !.remaining_questions = @ + 1,
        !.histories[suspect_name] =
            Append(@, [q |-> q, a |-> _strip_html_tags(unescape(answer))])]

\* the accepted question closing the case when the budget runs out
question_accepted_auto_over(suspect_name, q, answer) ==
    [session_state EXCEPT
        !.remaining_questions = @ - 1,
        !.histories[suspect_name] =
            Append(@, [q |-> q, a |-> _strip_html_tags(unescape(answer))]),
        !.game_over = (session_state.remaining_questions - 1 <= 0)]

\* the accepted question when call_crew_for_answer raises: line 731 has run,
\* line 741 has not
question_accepted_answer_raises(suspect_name, q, answer) ==
    [session_state EXCEPT !.remaining_questions = @ - 1]

\* the accepted question with the turn put in front of the history
question_accepted_prepend(suspect_name, q, answer) ==
    [session_state EXCEPT
        !.remaining_questions = @ - 1,
        !.histories[suspect_name] =
            <<[q |-> q, a |-> _strip_html_tags(unescape(answer))]>> \o @]

\* the accepted question recorded without charging the budget
question_accepted_no_charge(suspect_name, q, answer) ==
    [session_state EXCEPT
        !.histories[suspect_name] =
            Append(@, [q |-> q, a |-> _strip_html_tags(unescape(answer))])]

\* lines 728-741: the accepted question, answered by answer
question_accepted(suspect_name, q, answer) ==
    [session_state EXCEPT
        !.remaining_questions = @ - 1,
        !.histories[suspect_name] =
            Append(@, [q |-> q, a |-> _strip_html_tags(unescape(answer))])]

\* lines 728-741 once kickoff() of the dialogue crew had the outcome result
\* and call_crew_for_answer returned answer
question_answered(suspect_name, question, q, result, answer) ==
    /\ lastCall' = [op |-> "handle_question_submit",
                    suspect_name |-> suspect_name, question |-> question,
                    result |-> result, answer |-> answer]
    /\ session_state' = question_accepted(suspect_name, q, answer)

\* handle_question_submit(suspect_name, question, disabled); Results is the
\* set of outcomes the dialogue crew's kickoff() may have
handle_question_submit(suspect_name, question, disabled, Results) ==
    LET q == strip(question)
        counted == q # <<>> /\ ~disabled /\ ~session_state.game_over
    IN
    /\ counted => asks < MaxAskCalls
    /\ asks' = IF counted THEN asks + 1 ELSE asks
    /\ IF question_rejected(q, disabled)
       THEN /\ lastCall' = [op |-> "handle_question_submit",
                            suspect_name |-> suspect_name,
                            question |-> question]
            /\ UNCHANGED <<session_state, agent_failures>>
       ELSE \E result \in Results :
              /\ result.raises => agent_failures < MaxAgentFailures
              /\ agent_failures' =
                    IF result.raises THEN agent_failures + 1 ELSE agent_failures
              /\ question_answered(suspect_name, question, q, result,
                                   call_crew_for_answer(result))

\* _generate_epilogue
_generate_epilogue(accused_name, won, guilty_name) ==
    IF won
    THEN <<"You lay out the last contradiction, and the room goes quiet.\n\n",
           guilty_name,
           " stops arguing and starts calculating. The storm outside fades, but the weight of the evidence doesn't. Logs, timelines - all of it lines up in a single, sharp line pointing at them.\n\nSecurity walks them out. The office hums back to life, one monitor at a time.">>
    ELSE <<"You point the finger at ", accused_name,
           ", and the room tenses. For a moment it almost fits - almost.\n\nBut the loose ends remain. Somewhere in the logs, in the access patterns, in the off-by-one timestamp, ",
           guilty_name,
           " slips away clean.\n\nThe storm passes. The case closes on paper, but not in your head.">>

\* the early returns without the game_over check of lines 784-785
accusation_rejected_no_over(disabled) ==
    disabled

\* the early returns with the budget check of handle_question_submit added
accusation_rejected_without_budget(disabled) ==
    \/ disabled
    \/ session_state.game_over
    \/ session_state.remaining_questions <= 0

\* lines 781-785: the early returns of handle_accusation
accusation_rejected(disabled) ==
    disabled \/ session_state.game_over

\* the accepted accusation with the comparison of line 798 inverted
accusation_accepted_inverted(accused_name) ==
    LET guilty_name == session_state.guilty_name
        won == accused_name # guilty_name
    IN [session_state EXCEPT
           !.accused = accused_name,
           !.outcome = [won |-> won,
                        accused |-> accused_name,
                        guilty |-> guilty_name,
                        epilogue |-> _generate_epilogue(accused_name, won,
                                                        guilty_name)],
           !.game_over = TRUE]

\* the accepted accusation without the assignment of line 797
accusation_accepted_no_accused(accused_name) ==
    LET guilty_name == session_state.guilty_name
        won == accused_name = guilty_name
    IN [session_state EXCEPT
           !.outcome = [won |-> won,
                        accused |-> accused_name,
                        guilty |-> guilty_name,
                        epilogue |-> _generate_epilogue(accused_name, won,
                                                        guilty_name)],
           !.game_over = TRUE]

\* lines 787-807
accusation_accepted(accused_name) ==
    LET guilty_name == session_state.guilty_name
        won == accused_name = guilty_name
    IN [session_state EXCEPT
           !.accused = accused_name,
           !.outcome = [won |-> won,
                        accused |-> accused_name,
                        guilty |-> guilty_name,
                        epilogue |-> _generate_epilogue(accused_name, won,
                                                        guilty_name)],
           !.game_over = TRUE]

\* handle_accusation(accused_name, disabled)
handle_accusation(accused_name, disabled) ==
    /\ lastCall' = [op |-> "handle_accusation", accused_name |-> accused_name]
    /\ UNCHANGED <<asks, agent_failures>>
    /\ IF accusation_rejected(disabled) THEN UNCHANGED session_state
       ELSE session_state' = accusation_accepted(accused_name)

\* ---------------------------------------------------- outcomes of the crews
\* result.tasks_output: a list of task outputs, a dict of them by task name,
\* or neither
TasksList(items) == [type |-> "list", list |-> items, dict |-> EmptyDict]
TasksDict(items) == [type |-> "dict", list |-> <<>>, dict |-> items]
TasksNone == [type |-> "none", list |-> <<>>, dict |-> EmptyDict]

\* the text of a JSON object with the mapping d
JsonText(d) == IF d = EmptyDict THEN <<LB, RB>> ELSE <<LB, KV(d), RB>>

\* a task output whose raw attribute is text
Task(text) == [raw |-> text, str |-> text]

KickoffRaises(e) == [raises |-> TRUE, e |-> e]
KickoffReturns(tasks_output, str) ==
    [raises |-> FALSE, tasks_output |-> tasks_output, str |-> str]

SceneExample ==
    [scene_id |-> <<Ch("scene_1")>>,
     present_characters |-> << <<LEON, SP, VANCE, SP, LPAR, VICTIM_CAP, RPAR>> >>,
     summary |-> <<Ch("Past midnight"), COMMA, SP, Ch("the"), SP, BODY_OF,
                   LEON, SP, VANCE, SP, Ch("lies"), DOT>>,
     location |-> <<Ch("Server room")>>]

\* outcomes of the case crew explored with the whole session
SessionCaseResults ==
    { KickoffRaises(<<"429 RESOURCE_EXHAUSTED">>),
      KickoffReturns(TasksList(<<
          Task(<<Ch("Thought:"), SP>> \o JsonText(SceneExample)),
          Task(<<BT, BT, BT, Ch("json"), NL>>
               \o JsonText([suspects |-> PyList(<<
                               [name |-> "A", id |-> "s1", role |-> "CTO"],
                               [name |-> "B", id |-> "s2", secret |-> "debt"]>>),
                            killer_id |-> "s1"])
               \o <<NL, BT, BT, BT>>)>>), <<W>>),
      KickoffReturns(TasksDict([define_characters |->
          Task(JsonText([suspects |-> PyList(<<[name |-> "A", guilty |-> TRUE]>>)]))]),
          <<W>>),
      KickoffReturns(TasksList(<<Task(JsonText([suspects |-> PyList(<<>>)]))>>),
                     <<W>>) }

\* outcomes of the dialogue crew explored with the whole session
SessionDialogueResults ==
    { KickoffRaises({"RESOURCE_EXHAUSTED"}),
      KickoffRaises({}),
      KickoffReturns(TasksList(<<
          Task(JsonText([spoken_text |->
                           PyStr(<<AMP_LT, Ch("b"), AMP_GT, W, SP>>)]))>>), <<W>>) }

Questions == { <<>>, <<SP>>, <<SP, W>> }

\* a fenced block holding a JSON number
FencedNumber == <<BT, BT, BT, Ch("json"), NL, JV, NL, BT, BT, BT>>

\* raw suspects: name, id and guilty flag each present or absent
RawSuspects ==
    { n @@ i @@ g :
        n \in {EmptyDict, [name |-> "A"], [name |-> "B"]},
        i \in {EmptyDict, [id |-> "s1"]},
        g \in {EmptyDict, [guilty |-> TRUE]} }

SuspectLists == UNION { [1..n -> RawSuspects] : n \in 0..MaxSuspects }

\* characters structures: suspects, guilty_name and killer_id each present
\* or absent
CharacterStructures ==
    { s @@ g @@ k :
        s \in {EmptyDict, [suspects |-> PyOther]}
               \cup { [suspects |-> PyList(l)] : l \in SuspectLists },
        g \in {EmptyDict, [guilty_name |-> ""], [guilty_name |-> "A"],
               [guilty_name |-> "Z"]},
        k \in {EmptyDict, [killer_id |-> "s1"]} }

\* outcomes of the case crew explored for the Case Normalizer: every
\* characters structure, in both shapes of tasks_output
NormalizerCaseResults ==
    { KickoffRaises(<<"timeout">>), KickoffReturns(TasksNone, <<W>>),
      KickoffReturns(TasksList(<<Task(FencedNumber)>>), <<W>>) }
    \cup { KickoffReturns(TasksList(<<Task(JsonText(c))>>), <<W>>) :
             c \in CharacterStructures }
    \cup { KickoffReturns(TasksDict([define_characters |-> Task(JsonText(c))]),
                          <<W>>) : c \in CharacterStructures }

\* the case crew's outcome in the sessions that explore the Dialogue Resolver
ResolverCaseResults ==
    { KickoffReturns(TasksDict([define_characters |->
          Task(JsonText([suspects |-> PyList(<<[name |-> "A", guilty |-> TRUE]>>)]))]),
          <<W>>) }

\* dialogue JSON structures: each alias key absent or present with an empty
\* string, a string of its own, a number or null
AliasStructures ==
    { s @@ a @@ t :
        s \in {EmptyDict} \cup
              { [spoken_text |-> v] :
                  v \in {PyStr(<<>>), PyStr(<<SP, Ch("s"), SP>>), PyOther, PyNull} },
        a \in {EmptyDict} \cup
              { [answer |-> v] : v \in {PyStr(<<>>), PyStr(<<Ch("a"), SP>>)} },
        t \in {EmptyDict, [text |-> PyStr(<<Ch("t")>>)]} }

\* raw texts of the dialogue task
DialogueTexts ==
    { JsonText(d) : d \in AliasStructures }
    \cup { <<W>>, <<SP>>, FencedNumber,
           <<Ch("Thought:"), SP>> \o JsonText([answer |-> PyStr(<<Ch("a")>>)]) }

\* a text of n one-character tokens
LongText(n) == [i \in 1..n |-> W]

\* values of str(result)
StrTexts ==
    { <<W>>, <<SP, W, NL>>, <<SP>>,
      JsonText([answer |-> PyStr(<<Ch("f"), SP>>)]),
      LongText(ANSWER_LIMIT), LongText(ANSWER_LIMIT + 1),
      <<SP>> \o LongText(ANSWER_LIMIT) \o <<SP>> }

\* tasks_output values in which the Resolver finds no spoken text
SilentTasks ==
    { TasksNone, TasksList(<<>>), TasksList(<<Task(<<W>>)>>),
      TasksDict([another_task |->
                   Task(JsonText([spoken_text |-> PyStr(<<Ch("s")>>)]))]) }

\* the markers an error text may contain
ErrorMarkers == {"429", "RESOURCE_EXHAUSTED", "Quota exceeded"}

\* outcomes of the dialogue crew explored for the Dialogue Resolver
ResolverDialogueResults ==
    { KickoffRaises(msg) : msg \in SUBSET ErrorMarkers }
    \cup { KickoffReturns(TasksList(<<Task(text)>>), <<W>>) :
             text \in DialogueTexts }
    \cup { KickoffReturns(TasksDict([generate_suspect_dialogue |-> Task(text)]),
                          <<W>>) : text \in DialogueTexts }
    \cup { KickoffReturns(TasksList(<<Task(JsonText([answer |-> PyStr(<<Ch("a")>>)])),
                                      Task(JsonText([spoken_text |->
                                                       PyStr(<<Ch("s")>>)]))>>),
                          <<W>>) }
    \cup { KickoffReturns(tasks, str) : tasks \in SilentTasks, str \in StrTexts }

\* input texts of the Text-Block Extractor: a body of JSON and other tokens,
\* bare, after a "Thought:" prefix, or fenced
ExtractorTokens ==
    { LB, RB, KV([spoken_text |-> PyStr(<<W>>)]), JV, W, SP, NL }

ExtractorBodies == UNION { [1..n -> ExtractorTokens] : n \in 0..MaxBodyLen }

ExtractorTexts ==
    { prefix \o body \o suffix :
        prefix \in { <<>>, <<W, SP>>, <<BT, BT, BT, NL>> },
        body \in ExtractorBodies,
        suffix \in { <<>>, <<NL, BT, BT, BT>> } }

\* scene structures: each field absent, empty, or with a value
SceneStructures ==
    { i @@ p @@ s @@ l @@ v @@ h :
        i \in {EmptyDict, [scene_id |-> <<Ch("scene_1")>>]},
        p \in {EmptyDict} \cup
              { [present_characters |-> chars] :
                  chars \in { <<>>,
                              << <<Ch("Ada"), SP, Ch("Lovelace")>> >>,
                              << <<Ch("Ada")>>,
                                 <<LEON, SP, VANCE, SP, LPAR, VICTIM_CAP, RPAR>> >>,
                              << <<LPAR, VICTIM_LOW, RPAR>> >> } },
        s \in {EmptyDict} \cup
              { [summary |-> text] :
                  text \in { <<>>,
                             <<Ch("Past midnight"), COMMA, SP, Ch("the"), SP,
                               BODY_OF, LEON, SP, VANCE, SP, Ch("lies"), DOT>>,
                             <<DOT, SP, Ch("Nothing moves")>>,
                             <<Ch("He was"), SP, ELECTRO_LOW, DOT>> } },
        l \in {EmptyDict, [location |-> <<>>],
               [location |-> <<Ch("Server room")>>]},
        v \in {EmptyDict} \cup
              { [visible_clues |-> clues] :
                  clues \in { <<>>, << <<Ch("burn marks")>> >>,
                              << <<Ch("a cable")>>, <<ELECTRO_CAP, SP, Ch("rat")>> >> } },
        h \in {EmptyDict, [hidden_tension |-> <<>>],
               [hidden_tension |-> <<Ch("Everyone hides something")>>]} }

\* a valid characters structure
CharactersExample ==
    [suspects |-> PyList(<<[name |-> "A", guilty |-> TRUE], [name |-> "B"]>>)]

\* outcomes of the case crew explored for the scene derivation: no scene, or
\* a scene structure in either shape of tasks_output, with valid characters
SceneCaseResults ==
    { KickoffReturns(TasksList(<<Task(JsonText(CharactersExample))>>), <<W>>) }
    \cup { KickoffReturns(TasksList(<<Task(JsonText(scene)),
                                      Task(JsonText(CharactersExample))>>),
                          <<W>>) : scene \in SceneStructures }
    \cup { KickoffReturns(TasksDict([create_scene_blueprint |->
                                        Task(JsonText(scene)),
                                     define_characters |->
                                        Task(JsonText(CharactersExample))]),
                          <<W>>) : scene \in SceneStructures }

\* ------------------------------------------------------------ specification
Init ==
    /\ session_state = EmptyDict
    /\ lastCall = [op |-> "start"]
    /\ asks = 0
    /\ agent_failures = 0

Render == init_game_state(SessionCaseResults)

Ask ==
    /\ Initialised
    /\ \E suspect_name \in suspect_names, question \in Questions :
         handle_question_submit(suspect_name, question,
                                Get(session_state, "crew_failed", FALSE),
                                SessionDialogueResults)

Accuse ==
    /\ Initialised
    /\ \E accused_name \in suspect_names :
         handle_accusation(accused_name,
                           Get(session_state, "crew_failed", FALSE))

Reset == reset_game

Next == Render \/ Ask \/ Accuse \/ Reset

Spec == Init /\ [][Next]_vars

\* the Case Normalizer on every characters structure: a session is started
\* once from each outcome of the case crew
RenderNorm == init_game_state(NormalizerCaseResults)

NextNorm == RenderNorm

SpecNorm == Init /\ [][NextNorm]_vars

\* the Dialogue Resolver on every outcome of the dialogue crew, in a session
\* of one suspect
RenderResolver == init_game_state(ResolverCaseResults)

AskResolver ==
    /\ Initialised
    /\ asks < MaxResolverAsks
    /\ \E suspect_name \in suspect_names, question \in Questions :
         handle_question_submit(suspect_name, question,
                                Get(session_state, "crew_failed", FALSE),
                                ResolverDialogueResults)

NextResolver == RenderResolver \/ AskResolver

SpecResolver == Init /\ [][NextResolver]_vars

\* the Text-Block Extractor applied to a text
Extract ==
    /\ lastCall.op = "start"
    /\ \E text \in ExtractorTexts :
         lastCall' = [op |-> "_extract_json", text |-> text,
                      value |-> _extract_json(text)]
    /\ UNCHANGED <<session_state, asks, agent_failures>>

NextExtract == Extract

SpecExtract == Init /\ [][NextExtract]_vars

\* the scene derivation on every scene structure: a session is started once
\* from each outcome of the case crew
RenderScene == init_game_state(SceneCaseResults)

NextScene == RenderScene

SpecScene == Init /\ [][NextScene]_vars

\* ------------------------------------------------------------------ claims
\* a successfully initialised session
Started == Initialised /\ ~session_state.crew_failed

IsAsk(call) == call.op = "handle_question_submit"
IsAccuse(call) == call.op = "handle_accusation"
NonBlank(call) == strip(call.question) # <<>>

\* C1: in a session started with remaining_questions = 10, each of the first
\* ten non-blank questions put to the active session takes exactly 1 from
\* remaining_questions and adds exactly one turn to the addressed suspect's
\* history and none to the others; the eleventh changes neither the counter
\* nor the length of any history.
C1_TenQuestionsThenNoOp ==
    [][ (Started /\ ~session_state.game_over
            /\ IsAsk(lastCall') /\ NonBlank(lastCall'))
        => LET s == lastCall'.suspect_name
               h == session_state.histories
               h2 == session_state'.histories
           IN IF asks' <= TOTAL_QUESTIONS
              THEN /\ session_state.remaining_questions = TOTAL_QUESTIONS - asks
                   /\ session_state'.remaining_questions
                        = session_state.remaining_questions - 1
                   /\ DOMAIN h2 = DOMAIN h
                   /\ Len(h2[s]) = Len(h[s]) + 1
                   /\ \A n \in DOMAIN h \ {s} : Len(h2[n]) = Len(h[n])
              ELSE /\ session_state'.remaining_questions
                        = session_state.remaining_questions
                   /\ DOMAIN h2 = DOMAIN h
                   /\ \A n \in DOMAIN h : Len(h2[n]) = Len(h[n]) ]_vars

\* the eleventh question has been put to a session that is still active
C1_Witness ==
    /\ Started /\ ~session_state.game_over
    /\ IsAsk(lastCall) /\ NonBlank(lastCall)
    /\ asks = TOTAL_QUESTIONS + 1
    /\ session_state.remaining_questions = 0

\* C2: a question that is empty or only whitespace, or put to a session that
\* is over, or put when remaining_questions <= 0, leaves the whole session
\* state unchanged.
C2_RejectedQuestionChangesNothing ==
    [][ (IsAsk(lastCall')
            /\ (\/ ~NonBlank(lastCall')
                \/ session_state.game_over
                \/ session_state.remaining_questions <= 0))
        => session_state' = session_state ]_vars

\* a blank question was put to an active session that had budget left
C2_Witness ==
    /\ Started /\ ~session_state.game_over
    /\ IsAsk(lastCall) /\ ~NonBlank(lastCall)
    /\ session_state.remaining_questions \in 1..(TOTAL_QUESTIONS - 1)

\* C3: remaining_questions stays within 0..10 and no step between two states
\* of the same session (any step but a reset and the initialisation after
\* it) increases it.
C3_BudgetRangeAndMonotone ==
    [][ /\ Initialised' =>
             session_state'.remaining_questions \in 0..TOTAL_QUESTIONS
        /\ (Initialised /\ Initialised') =>
             session_state'.remaining_questions
                <= session_state.remaining_questions ]_vars

\* the budget was used up and the case closed by an accusation
C3_Witness ==
    /\ Started /\ session_state.game_over
    /\ IsAccuse(lastCall)
    /\ session_state.remaining_questions = 0

\* C4: once game_over is true it stays true after every step except a reset,
\* which clears the session.
C4_GameOverMonotone ==
    [][ (Initialised /\ session_state.game_over)
        => \/ Initialised' /\ session_state'.game_over
           \/ lastCall'.op = "reset_game" /\ ~Initialised' ]_vars

\* a non-blank question was put to a session closed by an accusation
C4_Witness ==
    /\ Started /\ session_state.game_over
    /\ IsAsk(lastCall) /\ NonBlank(lastCall)

\* C5: in a successfully initialised session only an accusation turns
\* game_over from false to true; a question never changes game_over or
\* outcome, also when it brings remaining_questions to 0.
C5_OnlyAccusationCloses ==
    [][ Started
        => /\ (~session_state.game_over /\ Initialised'
                  /\ session_state'.game_over) => IsAccuse(lastCall')
           /\ IsAsk(lastCall') =>
                 /\ session_state'.game_over = session_state.game_over
                 /\ session_state'.outcome = session_state.outcome ]_vars

\* the tenth question was answered and the session is still active
C5_Witness ==
    /\ Started /\ ~session_state.game_over
    /\ session_state.outcome = NoneRec
    /\ IsAsk(lastCall) /\ asks = TOTAL_QUESTIONS
    /\ session_state.remaining_questions = 0

\* C6: an accusation of name accepted in an active session sets game_over
\* and an outcome with won true exactly when name equals the case's
\* guilty_name, accused = name and guilty = the case's guilty_name.
C6_AccusationOutcome ==
    [][ (Started /\ ~session_state.game_over /\ IsAccuse(lastCall'))
        => /\ session_state'.game_over
           /\ session_state'.outcome.won
                = (lastCall'.accused_name = session_state.case.guilty_name)
           /\ session_state'.outcome.accused = lastCall'.accused_name
           /\ session_state'.outcome.guilty = session_state.case.guilty_name ]_vars

\* a wrong accusation was accepted in a case whose culprit is in the roster
C6_Witness ==
    /\ Started /\ IsAccuse(lastCall)
    /\ session_state.outcome # NoneRec
    /\ ~session_state.outcome.won
    /\ session_state.outcome.accused = lastCall.accused_name
    /\ session_state.outcome.guilty \in NamesOf(session_state.case.suspects)

\* C7: outcome is absent while the session is not over, is set only by an
\* accusation, and once set neither outcome, accused nor game_over changes
\* until the session is reset.
C7_OutcomeSetOnce ==
    [][ /\ (Initialised' /\ ~session_state'.game_over)
             => session_state'.outcome = NoneRec
        /\ (Initialised /\ Initialised'
              /\ session_state.outcome # session_state'.outcome)
             => IsAccuse(lastCall') /\ session_state.outcome = NoneRec
        /\ (Initialised /\ Initialised' /\ session_state.outcome # NoneRec)
             => /\ session_state'.outcome = session_state.outcome
                /\ session_state'.accused = session_state.accused
                /\ session_state'.game_over = session_state.game_over ]_vars

\* a second accusation, of another suspect, was made after the outcome was set
C7_Witness ==
    /\ Started /\ session_state.outcome # NoneRec
    /\ IsAccuse(lastCall)
    /\ lastCall.accused_name # session_state.outcome.accused

GuiltyIndexes(case) ==
    {i \in 1..Len(case.suspects) : case.suspects[i].guilty}

\* C8: the case of a started session has exactly one suspect with
\* guilty = true, and that suspect's name is guilty_name.
C8_ExactlyOneGuilty ==
    Started =>
        LET case == session_state.case IN
        /\ Cardinality(GuiltyIndexes(case)) = 1
        /\ \A i \in GuiltyIndexes(case) :
              case.suspects[i].name = case.guilty_name

\* C9: in the case of a started session suspects is non-empty, the suspects'
\* names are pairwise different, and guilty_name is the name of exactly one
\* suspect.
C9_RosterConsistent ==
    Started =>
        LET case == session_state.case
            n == Len(case.suspects)
        IN /\ n > 0
           /\ \A i, j \in 1..n :
                 i # j => case.suspects[i].name # case.suspects[j].name
           /\ Cardinality({i \in 1..n :
                             case.suspects[i].name = case.guilty_name}) = 1

\* the characters structure the case crew returned, as generate_case_with_crew
\* found it; NoneRec when it found none
ReturnedCharacters == Get(session_state, "characters", NoneRec)

NoCulpritInfo(c) ==
    /\ "guilty_name" \notin DOMAIN c
    /\ \A i \in 1..Len(c.suspects.items) :
          LET s == c.suspects.items[i] IN
          /\ ~("guilty" \in DOMAIN s /\ s.guilty = TRUE)
          /\ ~("killer_id" \in DOMAIN c /\ "id" \in DOMAIN s
                 /\ s.id = c.killer_id)

\* C10: case generation fails and yields no case when the characters
\* structure is absent, when suspects is missing, not a list or empty, and
\* when no suspect is flagged guilty, there is no guilty_name and no
\* suspect's id is killer_id.
C10_NormalizerFails ==
    (Initialised /\ lastCall.op = "init_game_state" /\ lastCall.generated)
    => LET c == ReturnedCharacters IN
       (\/ c = NoneRec
        \/ "suspects" \notin DOMAIN c
        \/ c.suspects.type # "list"
        \/ Len(c.suspects.items) = 0
        \/ NoCulpritInfo(c))
       => /\ session_state.crew_failed
          /\ session_state.case = EmptyDict
          /\ "guilty_name" \notin DOMAIN session_state

\* generation failed on a roster of named suspects without any culprit
\* information
C10_Witness ==
    /\ Initialised /\ session_state.crew_failed
    /\ ReturnedCharacters # NoneRec
    /\ "suspects" \in DOMAIN ReturnedCharacters
    /\ ReturnedCharacters.suspects.type = "list"
    /\ Len(ReturnedCharacters.suspects.items) = 2
    /\ \A i \in 1..2 : "name" \in DOMAIN ReturnedCharacters.suspects.items[i]
    /\ NoCulpritInfo(ReturnedCharacters)


\* the session was generated by the last call, from the outcome lastCall.result
JustGenerated ==
    Initialised /\ lastCall.op = "init_game_state" /\ lastCall.generated

\* C11: when case generation fails (kickoff raises, its output cannot be
\* parsed, or the Normalizer raises) the initialisation completes and leaves
\* the failed session: crew_failed true, an error message stored, the case
\* and the histories empty, remaining_questions = 0, game_over true, accused
\* and outcome None, and no guilty_name.
C11_FailedInitialisation ==
    (JustGenerated /\ generate_case_with_crew(lastCall.result).raised)
    => /\ session_state.crew_failed = TRUE
       /\ Len(session_state.crew_error) > 1
       /\ session_state.case = EmptyDict
       /\ session_state.histories = EmptyDict
       /\ session_state.remaining_questions = 0
       /\ session_state.game_over = TRUE
       /\ session_state.accused = None
       /\ session_state.outcome = NoneRec
       /\ "guilty_name" \notin DOMAIN session_state

\* the Normalizer raised on a characters structure the crew did return
C11_Witness ==
    /\ JustGenerated
    /\ ~lastCall.result.raises
    /\ generate_case_with_crew(lastCall.result).raised
    /\ "characters" \in DOMAIN session_state
    /\ session_state.crew_failed


\* a failed session
Failed == Initialised /\ session_state.crew_failed

\* C12: a failed session exposes no case (case empty, outcome None,
\* remaining_questions = 0), and no question, accusation or render changes
\* any of its fields or generates a case again; only a reset leaves it.
C12_FailedIsPermanent ==
    [][ Failed
        => /\ session_state.case = EmptyDict
           /\ session_state.outcome = NoneRec
           /\ session_state.remaining_questions = 0
           /\ \/ session_state' = session_state
              \/ lastCall'.op = "reset_game" /\ session_state' = EmptyDict
           /\ lastCall'.op = "init_game_state" => ~lastCall'.generated ]_vars

\* a non-blank question was put to a failed session
C12_Witness ==
    /\ Failed
    /\ IsAsk(lastCall) /\ NonBlank(lastCall)
    /\ session_state.remaining_questions = 0


\* the question of the step is accepted: it is not blank and is put to an
\* active session with budget left
AcceptedAsk ==
    /\ Started /\ ~session_state.game_over
    /\ session_state.remaining_questions > 0
    /\ IsAsk(lastCall') /\ NonBlank(lastCall')

\* the dialogue crew was called by the last call
Answered(call) == IsAsk(call) /\ "result" \in DOMAIN call

IsText(a) == DOMAIN a = 1..Len(a) /\ \A i \in 1..Len(a) : "t" \in DOMAIN a[i]

\* C13: whatever the dialogue crew does (it raises, returns a list of task
\* outputs, a dict of them, or output without any usable structure), an
\* accepted question completes: exactly one turn, whose answer is a string,
\* is appended to the addressed suspect's history, and the session stays
\* active and not failed.
C13_ResolverNeverRaises ==
    [][ AcceptedAsk
        => LET s == lastCall'.suspect_name
               h == session_state.histories[s]
               h2 == session_state'.histories[s]
           IN /\ Answered(lastCall')
              /\ Len(h2) = Len(h) + 1
              /\ SubSeq(h2, 1, Len(h)) = h
              /\ h2[Len(h2)].q = strip(lastCall'.question)
              /\ IsText(h2[Len(h2)].a)
              /\ IsText(lastCall'.answer)
              /\ session_state'.game_over = FALSE
              /\ session_state'.crew_failed = FALSE ]_vars

\* the dialogue crew raised and the turn was still recorded
C13_Witness ==
    /\ Started /\ ~session_state.game_over
    /\ Answered(lastCall) /\ lastCall.result.raises
    /\ Len(session_state.histories[lastCall.suspect_name]) = 1
    /\ session_state.remaining_questions = TOTAL_QUESTIONS - 1


\* the accepted question of the step met a dialogue crew that raised
AgentFailed == AcceptedAsk /\ Answered(lastCall') /\ lastCall'.result.raises

\* C14 as stated: when the call of the dialogue agent fails, the Resolver
\* returns the throttled line if the error text contains RESOURCE_EXHAUSTED
\* and the generic glitch line for any other failure, after one call.
C14_ThrottledOnResourceExhausted ==
    [][ AgentFailed
        => /\ lastCall'.answer =
                 IF "RESOURCE_EXHAUSTED" \in lastCall'.result.e
                 THEN THROTTLED_LINE ELSE GLITCH_LINE
           /\ agent_failures' = agent_failures + 1 ]_vars

\* C14, amended: when the call of the dialogue agent fails, the Resolver
\* returns the throttled line if the error text contains "429",
\* "RESOURCE_EXHAUSTED" or "Quota exceeded", and the generic glitch line for
\* any other failure; the agent is called once, without a retry.
C14_ThrottledOnQuotaMarkers ==
    [][ AgentFailed
        => /\ lastCall'.answer =
                 IF lastCall'.result.e \cap ErrorMarkers # {}
                 THEN THROTTLED_LINE ELSE GLITCH_LINE
           /\ agent_failures' = agent_failures + 1 ]_vars

\* the agent failed with an error text that holds "429" only, and the
\* throttled line was returned
C14_Witness ==
    /\ Answered(lastCall) /\ lastCall.result.raises
    /\ lastCall.result.e = {"429"}
    /\ lastCall.answer = THROTTLED_LINE
    /\ agent_failures = 1


\* the spoken text of a structure the Extractor returned, PyNull when it is
\* not a mapping
SpokenIn(data) == IF IsDict(data) THEN spoken_of(data) ELSE PyNull

\* the agent call succeeded and neither the task outputs nor str(result)
\* hold a spoken text
NoSpokenText(result) ==
    /\ ~result.raises
    /\ ~TruthyValue(SpokenIn(dialogue_data(result)))
    /\ ~TruthyValue(SpokenIn(_extract_json(result.str)))

\* C15 as stated: without a spoken text the Resolver returns str(result)
\* unchanged if it has at most 400 characters, and otherwise exactly its
\* first 400 characters followed by the ellipsis.
C15_FallbackUnchangedOrTruncated ==
    (Answered(lastCall) /\ NoSpokenText(lastCall.result))
    => LET raw == lastCall.result.str IN
       lastCall.answer =
          IF Len(raw) <= ANSWER_LIMIT THEN raw
          ELSE SubSeq(raw, 1, ANSWER_LIMIT) \o <<Ch("...")>>

\* C15, amended: without a spoken text the Resolver returns str(result)
\* trimmed of leading and trailing whitespace if the trimmed text has at most
\* 400 characters, and otherwise exactly the first 400 characters of the
\* trimmed text followed by the ellipsis.
C15_FallbackTrimmedOrTruncated ==
    (Answered(lastCall) /\ NoSpokenText(lastCall.result))
    => LET trimmed == strip(lastCall.result.str) IN
       lastCall.answer =
          IF Len(trimmed) <= ANSWER_LIMIT THEN trimmed
          ELSE SubSeq(trimmed, 1, ANSWER_LIMIT) \o <<Ch("...")>>

\* str(result) had 402 characters, 400 of them between two spaces, and came
\* back as those 400 without the ellipsis
C15_Witness ==
    /\ Answered(lastCall) /\ NoSpokenText(lastCall.result)
    /\ Len(lastCall.result.str) = ANSWER_LIMIT + 2
    /\ lastCall.answer = LongText(ANSWER_LIMIT)


\* the value is a mapping from string keys to values
IsMapping(value) ==
    value # NoneRec /\ value # NotADict /\ DOMAIN value \subseteq STRING

\* the text holds no JSON value at all
NonJsonText(text) ==
    \A i \in 1..Len(text) : text[i] \notin {LB, RB, JV} /\ text[i].t # "kv"

\* C16: for every input text (None or empty, plain JSON, fenced, or any
\* other text) the Text-Block Extractor returns either a mapping from string
\* keys to values or None, and it returns None for a text without JSON.
C16_ExtractorMappingOrNone ==
    lastCall.op = "_extract_json"
    => /\ lastCall.value = NoneRec \/ IsMapping(lastCall.value)
       /\ NonJsonText(lastCall.text) => lastCall.value = NoneRec


\* C17: a reset is accepted in every session state (active, over, failed)
\* and clears the whole session state, so that no previous case, history,
\* counter, flag, accused or outcome remains; the initialisation that
\* follows generates a case again and, when that succeeds, starts from
\* remaining_questions = 10, empty histories, game_over false and no outcome.
C17_ResetClearsEverything ==
    [][ /\ Initialised => ENABLED Reset
        /\ (Initialised /\ lastCall'.op = "reset_game")
              => session_state' = EmptyDict /\ DOMAIN session_state' = {}
        /\ (~Initialised /\ Initialised')
              => /\ lastCall'.op = "init_game_state" /\ lastCall'.generated
                 /\ ~session_state'.crew_failed
                       => /\ session_state'.remaining_questions = TOTAL_QUESTIONS
                          /\ \A n \in DOMAIN session_state'.histories :
                                session_state'.histories[n] = <<>>
                          /\ session_state'.game_over = FALSE
                          /\ session_state'.accused = None
                          /\ session_state'.outcome = NoneRec ]_vars

\* a session in which ten questions were asked has just been reset
C17_Witness ==
    /\ lastCall.op = "reset_game"
    /\ session_state = EmptyDict
    /\ asks = TOTAL_QUESTIONS


\* history h2 is history h with turns added at its end
Extends(h2, h) == Len(h2) >= Len(h) /\ SubSeq(h2, 1, Len(h)) = h

\* C18: a started session begins with one empty history per suspect name;
\* an accepted question to suspect X adds one turn at the end of X's history
\* and leaves X's earlier turns and every other history as they were; no
\* other step of the session changes a history or remaining_questions, and
\* an accusation in particular leaves both unchanged.
C18_HistoriesAppendOnly ==
    [][ /\ (~Initialised /\ Initialised' /\ ~session_state'.crew_failed)
              => /\ DOMAIN session_state'.histories
                       = NamesOf(session_state'.case.suspects)
                 /\ \A n \in DOMAIN session_state'.histories :
                       session_state'.histories[n] = <<>>
        /\ AcceptedAsk
              => LET s == lastCall'.suspect_name
                     h == session_state.histories
                     h2 == session_state'.histories
                 IN /\ DOMAIN h2 = DOMAIN h
                    /\ Len(h2[s]) = Len(h[s]) + 1
                    /\ Extends(h2[s], h[s])
                    /\ \A n \in DOMAIN h \ {s} : h2[n] = h[n]
        /\ (Started /\ Initialised')
              => /\ (\/ session_state'.histories # session_state.histories
                     \/ session_state'.remaining_questions
                           # session_state.remaining_questions)
                       => IsAsk(lastCall')
                 /\ DOMAIN session_state'.histories
                       = DOMAIN session_state.histories
                 /\ \A n \in DOMAIN session_state.histories :
                       Extends(session_state'.histories[n],
                               session_state.histories[n])
        /\ (Initialised /\ IsAccuse(lastCall'))
              => /\ session_state'.histories = session_state.histories
                 /\ session_state'.remaining_questions
                       = session_state.remaining_questions ]_vars

\* a second turn, with another answer than the first, was added to the
\* history of a suspect while another suspect's history holds a turn
C18_Witness ==
    /\ Started /\ Answered(lastCall)
    /\ LET h == session_state.histories
           s == lastCall.suspect_name
       IN /\ Len(h[s]) = 2
          /\ h[s][1].a # h[s][2].a
          /\ \E n \in DOMAIN h \ {s} : Len(h[n]) = 1


\* the characters structure has a non-empty list of suspects
HasRoster(c) ==
    /\ c # NoneRec /\ c # NotADict
    /\ "suspects" \in DOMAIN c
    /\ c.suspects.type = "list"
    /\ Len(c.suspects.items) > 0

\* positions of the suspects whose id is the killer_id that is present
IdMatches(c) ==
    {i \in 1..Len(c.suspects.items) :
        /\ "killer_id" \in DOMAIN c /\ Truthy(c.killer_id)
        /\ "id" \in DOMAIN c.suspects.items[i]
        /\ c.suspects.items[i].id = c.killer_id}

\* positions of the suspects whose raw guilty flag is true
FlagMatches(c) ==
    {i \in 1..Len(c.suspects.items) :
        /\ "guilty" \in DOMAIN c.suspects.items[i]
        /\ c.suspects.items[i].guilty = TRUE}

\* the name of the first suspect among the positions, None without one
FirstName(c, positions) ==
    IF positions = {} THEN None
    ELSE Get(c.suspects.items[FirstIndex(positions)], "name", None)

\* the sources of guilty_name in their order, None when none yields a name
SourcesInOrder(c) ==
    <<Get(c, "guilty_name", None),
      FirstName(c, IdMatches(c)),
      FirstName(c, FlagMatches(c))>>

FirstYield(sources) ==
    IF Truthy(sources[1]) THEN sources[1]
    ELSE IF Truthy(sources[2]) THEN sources[2]
    ELSE IF Truthy(sources[3]) THEN sources[3]
    ELSE None

\* C19: on a characters structure with a roster the Normalizer takes
\* guilty_name from the first of these that yields a name: a non-empty
\* guilty_name field; the first suspect whose id is the killer_id that is
\* present; the first suspect whose raw guilty flag is true.  The name is
\* stored unchanged as the case's guilty_name; generation fails when no
\* source yields one.
C19_GuiltyNameOrder ==
    (JustGenerated /\ HasRoster(ReturnedCharacters))
    => LET g == FirstYield(SourcesInOrder(ReturnedCharacters)) IN
       IF g = None THEN session_state.crew_failed
       ELSE /\ ~session_state.crew_failed
            /\ session_state.case.guilty_name = g
            /\ session_state.guilty_name = g

\* killer_id named one suspect and the guilty flag another, with no
\* guilty_name field: the suspect of killer_id became the culprit
C19_Witness ==
    /\ JustGenerated /\ HasRoster(ReturnedCharacters)
    /\ ~session_state.crew_failed
    /\ "guilty_name" \notin DOMAIN ReturnedCharacters
    /\ LET s == SourcesInOrder(ReturnedCharacters) IN
       /\ Truthy(s[2]) /\ Truthy(s[3]) /\ s[2] # s[3]
       /\ session_state.case.guilty_name = s[2]


\* the agent returned one dialogue task: a list of one task output, or a
\* dict with a task output under generate_suspect_dialogue
HasDialogueTask(result) ==
    /\ ~result.raises
    /\ \/ result.tasks_output.type = "list" /\ Len(result.tasks_output.list) = 1
       \/ /\ result.tasks_output.type = "dict"
          /\ "generate_suspect_dialogue" \in DOMAIN result.tasks_output.dict

DialogueTask(result) ==
    IF result.tasks_output.type = "list" THEN result.tasks_output.list[1]
    ELSE result.tasks_output.dict.generate_suspect_dialogue

AliasKeys == <<"spoken_text", "answer", "text">>

\* the alias keys of the structure that hold a non-empty string
SpokenAliases(data) ==
    {i \in 1..Len(AliasKeys) :
        /\ AliasKeys[i] \in DOMAIN data
        /\ data[AliasKeys[i]].type = "str"
        /\ data[AliasKeys[i]].val # <<>>}

\* every alias key of the structure holds a string or null
AliasesAreText(data) ==
    \A i \in 1..Len(AliasKeys) :
        AliasKeys[i] \in DOMAIN data
            => data[AliasKeys[i]].type \in {"str", "null"}

\* C20: for a list of task outputs and for a dict of them by task name, when
\* the structure extracted from the dialogue task's raw text holds a
\* non-empty string under spoken_text, answer or text, the Resolver returns
\* the value of the first of these keys that holds one, trimmed.
C20_AliasKeysInBothShapes ==
    (Answered(lastCall) /\ HasDialogueTask(lastCall.result))
    => LET data == _extract_json(_safe_get_task_raw(DialogueTask(lastCall.result)))
       IN (IsDict(data) /\ AliasesAreText(data) /\ SpokenAliases(data) # {})
          => lastCall.answer
                = strip(data[AliasKeys[FirstIndex(SpokenAliases(data))]].val)


\* the scene structure generate_case_with_crew found, NoneRec when none
ReturnedScene == Get(session_state, "scene_blueprint", NoneRec)

\* the field of the scene is missing or empty
Missing(scene, field) == field \notin DOMAIN scene \/ scene[field] = <<>>

\* no present character is marked as the victim with a name before the mark
NoVictimAmongCharacters(scene) ==
    \/ Missing(scene, "present_characters")
    \/ \A i \in 1..Len(scene.present_characters) :
          LET ch == scene.present_characters[i] IN
          \/ ~Contains(ch, {VICTIM_CAP, VICTIM_LOW})
          \/ ch[1] = LPAR

\* the summary is missing or empty, or names nobody after "body of"
NoVictimInSummary(scene) ==
    \/ Missing(scene, "summary")
    \/ ~Contains(scene.summary, {BODY_OF})

\* no electrocution in the summary nor in the visible clues
NoElectrocution(scene) ==
    /\ \/ Missing(scene, "summary")
       \/ ~Contains(scene.summary, {ELECTRO_LOW, ELECTRO_CAP})
    /\ \/ Missing(scene, "visible_clues")
       \/ \A i \in 1..Len(scene.visible_clues) :
             ~Contains(scene.visible_clues[i], {ELECTRO_LOW, ELECTRO_CAP})

\* C21: with a valid characters structure, case generation succeeds for
\* every scene structure, absent or present with any of present_characters,
\* summary, location, visible_clues and hidden_tension missing or empty, and
\* each of victim, time, place, cause and context that cannot be derived
\* from the scene keeps its default value.
C21_SceneNeverFatal ==
    JustGenerated
    => /\ ~session_state.crew_failed
       /\ LET scene == ReturnedScene
              case == session_state.case
          IN /\ (scene = NoneRec \/ (NoVictimAmongCharacters(scene)
                                      /\ NoVictimInSummary(scene)))
                   => case.victim = base_case.victim
             /\ (scene = NoneRec \/ Missing(scene, "summary"))
                   => case.time = base_case.time
             /\ (scene = NoneRec \/ Missing(scene, "location"))
                   => case.place = base_case.place
             /\ (scene = NoneRec \/ NoElectrocution(scene))
                   => case.cause = base_case.cause
             /\ (scene = NoneRec \/ (Missing(scene, "summary")
                                      /\ Missing(scene, "hidden_tension")))
                   => case.context = base_case.context

\* a scene without location and without hidden tension, whose summary names
\* the victim: the place keeps its default, the victim and the time do not
C21_Witness ==
    /\ JustGenerated /\ ~session_state.crew_failed
    /\ ReturnedScene # NoneRec
    /\ "location" \notin DOMAIN ReturnedScene
    /\ Missing(ReturnedScene, "hidden_tension")
    /\ NoVictimAmongCharacters(ReturnedScene)
    /\ ~NoVictimInSummary(ReturnedScene)
    /\ session_state.case.place = base_case.place
    /\ session_state.case.victim = <<LEON, SP, VANCE>>
    /\ session_state.case.time = <<Ch("Past midnight")>>
    /\ session_state.case.cause = base_case.cause


\* the number of turns in the histories of the names
RECURSIVE TurnsOf(_, _)
TurnsOf(histories, names) ==
    IF names = {} THEN 0
    ELSE LET n == CHOOSE x \in names : TRUE IN
         Len(histories[n]) + TurnsOf(histories, names \ {n})

TotalTurns == TurnsOf(session_state.histories, DOMAIN session_state.histories)

\* C22: in every state of a successfully initialised session the number of
\* turns in all histories plus remaining_questions is 10: the budget is
\* charged exactly when a turn is recorded, also when the answer is one of
\* the fallback lines.
C22_BudgetConservation ==
    Started => TotalTurns + session_state.remaining_questions = TOTAL_QUESTIONS

\* turns are recorded for two suspects, the last one answered by the glitch
\* line after the agent failed
C22_Witness ==
    /\ Started /\ Answered(lastCall)
    /\ lastCall.result.raises /\ lastCall.answer = GLITCH_LINE
    /\ \A n \in DOMAIN session_state.histories :
          Len(session_state.histories[n]) >= 1
    /\ Cardinality(DOMAIN session_state.histories) = 2
    /\ session_state.remaining_questions = TOTAL_QUESTIONS - TotalTurns
    /\ session_state.remaining_questions < TOTAL_QUESTIONS - 2


C24_ActiveCanBeClosed ==
    (Started /\ ~session_state.game_over)
    => \A accused_name \in suspect_names :
          ENABLED (/\ handle_accusation(accused_name,
                                        Get(session_state, "crew_failed", FALSE))
                   /\ session_state'.game_over = TRUE
                   /\ session_state'.outcome # NoneRec
                   /\ session_state'.accused = accused_name)

\* the case was closed by a wrong accusation after all ten questions
C24_Witness ==
    /\ Started /\ IsAccuse(lastCall)
    /\ session_state.game_over
    /\ session_state.outcome # NoneRec /\ ~session_state.outcome.won
    /\ session_state.remaining_questions = 0
    /\ TotalTurns = TOTAL_QUESTIONS

====
